---------------------------- MODULE Spec2Model ----------------------------
(***************************************************************************)
(* A model of the feed-forward network trainer of rust-neural-nets:        *)
(* construction (NeuralNet::new and the two initialisers), the forward     *)
(* pass, the backward pass with its gradient-descent step, the training    *)
(* loop NeuralNet::fit and the cross_entropy loss.                         *)
(*                                                                         *)
(* f64 arithmetic is not computed where it is not exact.  Initial weights  *)
(* are exact numbers num/den * sqrt(rad); a matrix that a gradient step    *)
(* has replaced is named by its shape and by the number of steps applied   *)
(* to it (ver); an intermediate matrix of a pass is named by its shape and *)
(* by the operands it was computed from.  cross_entropy is computed on     *)
(* probabilities 2^-k, whose log2 is exact, with the IEEE-754 special      *)
(* values -inf and NaN.                                                    *)
(***************************************************************************)
EXTENDS Integers, Sequences, FiniteSets, TLC

VARIABLES
    pc,                \* position of the program
    layer_structure,   \* argument of NeuralNet::new
    init_method,       \* argument of NeuralNet::new: "Default" or "Xavier"
    build,             \* "debug" (overflow checks) or "release" (wrapping)
    seed,              \* state of rand::thread_rng() when new is called
    layers,            \* NeuralNet.layers: Vec<(Array2<f64>, Array1<f64>)>
    num_epochs,        \* NeuralNet.num_epochs
    batch_size,        \* NeuralNet.batch_size
    nrows,             \* number of rows of dataset.data and dataset.target
    test_path,         \* fit's test_path: "None" or "Some"
    epsilon,           \* tolerance of the early-stopping controller
    num_epoch,         \* fit: the epoch loop's index
    chunk,             \* fit: number of batches of this epoch already taken
    losses,            \* fit: the loss trajectory being built
    hidden,            \* forward's activated outputs of the current batch
    hidden_linear,     \* forward's linear outputs of the current batch
    grad_help,         \* backward_and_update: gradient w.r.t. current layer
    idx,               \* backward_and_update: loop index (1-based)
    new_weights,       \* backward_and_update: let new_weights
    new_biases,        \* backward_and_update: let new_biases
    visited,           \* history: layers visited by the current backward pass
    batch_log,         \* history: batches processed in the current epoch
    epoch_log,         \* history: epoch indices whose batches were run
    predictions,       \* cross_entropy: argument predictions
    target,            \* cross_entropy: argument target
    ce_out             \* cross_entropy: returned value

newVars  == <<layer_structure, init_method, build, seed>>
netVars  == <<layers, num_epochs, batch_size>>
dataVars == <<nrows, test_path, epsilon>>
fitVars  == <<num_epoch, chunk, losses>>
passVars == <<hidden, hidden_linear, grad_help, idx, new_weights, new_biases>>
histVars == <<visited, batch_log, epoch_log>>
ceVars   == <<predictions, target, ce_out>>
vars     == <<pc, newVars, netVars, dataVars, fitVars, passVars, histVars, ceVars>>

(***************************************************************************)
(* Bounds of the model.                                                    *)
(***************************************************************************)
MaxLen == 3        \* longest layer_structure given to NeuralNet::new
MaxWidth == 2      \* widest hidden layer
NumFeatures == 3   \* columns of dataset.data (NUM_FEATURES, scaled down)
NumClasses == 2    \* columns of dataset.target (NUM_CLASSES, scaled down)
Grid == 2          \* the rng draws u from {0/Grid, ..., (Grid-1)/Grid}
UsizeBits == 16    \* width of usize (scaled down)

Widths == 1 .. MaxWidth
SeqsUpTo(S, n) == UNION {[1 .. k -> S] : k \in 0 .. n}
InitMethod == {"Default", "Xavier"}
Builds == {"debug", "release"}
UsizeModulus == 2 ^ UsizeBits

(***************************************************************************)
(* Exact numbers num/den * sqrt(rad), den > 0.  Operands of one operation  *)
(* share rad.                                                              *)
(***************************************************************************)
Q(n, d, r) == [num |-> n, den |-> d, rad |-> r]
QNeg(a) == Q(0 - a.num, a.den, a.rad)
QAdd(a, b) == Q(a.num * b.den + b.num * a.den, a.den * b.den, a.rad)
QSub(a, b) == QAdd(a, QNeg(b))
QTimesFrac(a, n, d) == Q(a.num * n, a.den * d, a.rad)
QLeq(a, b) == a.rad = b.rad /\ a.num * b.den <= b.num * a.den
QEq(a, b) == a.rad = b.rad /\ a.num * b.den = b.num * a.den

(***************************************************************************)
(* rand: Uniform::new(low, high) and Distribution::sample.  A sample is    *)
(* low + (high - low) * u with u in [0, 1); the generator is a stream      *)
(* fixed by its seed, draw number k giving u = ((seed + k) mod Grid)/Grid. *)
(***************************************************************************)
Uniform(low, high) == [low |-> low, scale |-> QSub(high, low)]
Draw(s, k) == (s + k) % Grid
Sample(dist, s, k) == QAdd(dist.low, QTimesFrac(dist.scale, Draw(s, k), Grid))

(***************************************************************************)
(* usize subtraction: a panic under overflow checks, wrapping otherwise.   *)
(***************************************************************************)
UsizeSub(a, b, bld) ==
    IF a >= b THEN [panic |-> FALSE, val |-> a - b]
    ELSE IF bld = "debug" THEN [panic |-> TRUE, val |-> 0]
    ELSE [panic |-> FALSE, val |-> (a - b) % UsizeModulus]

(***************************************************************************)
(* A weight matrix and a bias vector.  ver counts the gradient steps       *)
(* applied since construction; init holds the entries set at construction, *)
(* which are the current entries while ver = 0.  The entries of a weight   *)
(* matrix are sampled in row-major order, drawn samples having been taken  *)
(* before.                                                                 *)
(***************************************************************************)
Weights(rows, cols, dist, s, drawn) ==
    [rows |-> rows, cols |-> cols, ver |-> 0,
     init |-> [p \in (1 .. rows) \X (1 .. cols) |->
                  Sample(dist, s, drawn + (p[1] - 1) * cols + (p[2] - 1))]]
Bias(len, value) ==
    [len |-> len, ver |-> 0, init |-> [c \in 1 .. len |-> value]]

DefaultLayer_Transposed(ls, i, s, drawn) ==
    LET distribution == Uniform(Q(-3, 10, 1), Q(3, 10, 1))
        rows == ls[i + 2]
        cols == ls[i + 1]
    IN  [w |-> Weights(rows, cols, distribution, s, drawn),
         b |-> Bias(cols, Q(1, 1, 1))]

DefaultLayer(ls, i, s, drawn) ==
    LET distribution == Uniform(Q(-3, 10, 1), Q(3, 10, 1))
        rows == ls[i + 1]
        cols == ls[i + 2]
    IN  [w |-> Weights(rows, cols, distribution, s, drawn),
         b |-> Bias(cols, Q(1, 1, 1))]

XavierBoundary_FanInOnly(fan_in, fan_out) == Q(1, fan_in, 6)
XavierBoundary(fan_in, fan_out) == Q(1, fan_in + fan_out, 6)

XavierLayer(ls, i, s, drawn) ==
    LET boundary == XavierBoundary(ls[i + 1], ls[i + 2])
        dist == Uniform(QNeg(boundary), boundary)
        rows == ls[i + 1]
        cols == ls[i + 2]
    IN  [w |-> Weights(rows, cols, dist, s, drawn),
         b |-> Bias(cols, Q(0, 1, 1))]

(***************************************************************************)
(* The loop `for i in 0..layer_structure.len() - 1` of both initialisers:  *)
(* i is the 0-based index, n the loop bound, acc the layers pushed so far, *)
(* drawn the number of samples taken.  Indexing past the end panics.       *)
(***************************************************************************)
RECURSIVE InitLoop(_, _, _, _, _, _, _)
InitLoop(method, ls, i, n, acc, s, drawn) ==
    IF i >= n THEN [panic |-> FALSE, layers |-> acc]
    ELSE IF i + 2 > Len(ls) THEN [panic |-> TRUE, layers |-> <<>>]
    ELSE LET layer == IF method = "Default" THEN DefaultLayer(ls, i, s, drawn)
                      ELSE XavierLayer(ls, i, s, drawn)
         IN  InitLoop(method, ls, i + 1, n, Append(acc, layer), s,
                      drawn + layer.w.rows * layer.w.cols)

InitLayers(method, ls, bld, s) ==
    LET n == UsizeSub(Len(ls), 1, bld)
    IN  IF n.panic THEN [panic |-> TRUE, layers |-> <<>>]
        ELSE InitLoop(method, ls, 0, n.val, <<>>, s, 0)

init_layers_default(ls, bld, s) == InitLayers("Default", ls, bld, s)
init_layers_xavier(ls, bld, s) == InitLayers("Xavier", ls, bld, s)

NeuralNetNew(ls, method, bld, s) ==
    IF method = "Default" THEN init_layers_default(ls, bld, s)
    ELSE init_layers_xavier(ls, bld, s)

(***************************************************************************)
(* Values of the variables a specification does not use.                   *)
(***************************************************************************)
NoMatrix == [rows |-> 0, cols |-> 0]
IdlePass ==
    /\ hidden = <<>> /\ hidden_linear = <<>> /\ grad_help = NoMatrix
    /\ idx = 0 /\ new_weights = NoMatrix /\ new_biases = NoMatrix
IdleHist == visited = <<>> /\ batch_log = <<>> /\ epoch_log = <<>>
IdleFit == num_epoch = 0 /\ chunk = 0 /\ losses = <<>>
IdleCE == predictions = <<>> /\ target = <<>> /\ ce_out = "none"
IdleData == nrows = 0 /\ test_path = "None" /\ epsilon = 0

(***************************************************************************)
(* SpecNew: NeuralNet::new on any layer_structure of at most MaxLen widths *)
(***************************************************************************)
InitNew ==
    /\ pc = "new"
    /\ layer_structure \in SeqsUpTo(Widths, MaxLen)
    /\ init_method \in InitMethod
    /\ build \in Builds
    /\ seed \in 0 .. Grid - 1
    /\ layers = <<>> /\ num_epochs = 0 /\ batch_size = 1
    /\ IdleData /\ IdleFit /\ IdlePass /\ IdleHist /\ IdleCE

New ==
    /\ pc = "new"
    /\ LET r == NeuralNetNew(layer_structure, init_method, build, seed)
       IN  /\ pc' = IF r.panic THEN "panic" ELSE "constructed"
           /\ layers' = r.layers
    /\ UNCHANGED <<newVars, num_epochs, batch_size, dataVars, fitVars,
                   passVars, histVars, ceVars>>

NextNew == New
SpecNew == InitNew /\ [][NextNew]_vars


(***************************************************************************)
(* Matrices of a pass.  T names a matrix by its shape, by the operation    *)
(* that produced it and by that operation's operands; ok is FALSE when the *)
(* operation's shapes do not agree (ndarray panics there).                 *)
(***************************************************************************)
T(rows, cols, ok, op, args) ==
    [rows |-> rows, cols |-> cols, ok |-> ok, op |-> op, args |-> args]
SameShape(a, b) == a.rows = b.rows /\ a.cols = b.cols

\* rows lo .. hi-1 of dataset.data and of dataset.target
InputBatch(lo, hi) == T(hi - lo, NumFeatures, TRUE, "data", <<lo, hi>>)
TargetBatch(lo, hi) == T(hi - lo, NumClasses, TRUE, "target", <<lo, hi>>)

\* the parameters of layer k as they are now
ParamRef(lyrs, k) ==
    [layer |-> k, wver |-> lyrs[k].w.ver, bver |-> lyrs[k].b.ver]

\* hidden.last().unwrap().dot(&layer.0) + &layer.1
LinOutput(prev, lyrs, k) ==
    T(prev.rows, lyrs[k].w.cols,
      prev.ok /\ prev.cols = lyrs[k].w.rows /\ lyrs[k].b.len = lyrs[k].w.cols,
      "lin_output", <<prev, ParamRef(lyrs, k)>>)

\* x.map(|z| activation(&self.activation_function, z))
Activation(x) == T(x.rows, x.cols, x.ok, "activation", <<x>>)
\* x.map(|z| delta_activation(&self.activation_function, z))
DeltaActivation(x) == T(x.rows, x.cols, x.ok, "delta_activation", <<x>>)
\* softmax of every row
Softmax(x) == T(x.rows, x.cols, x.ok, "softmax", <<x>>)
\* a - b and a * b, elementwise
Minus(a, b) == T(a.rows, a.cols, a.ok /\ b.ok /\ SameShape(a, b), "minus", <<a, b>>)
Times(a, b) == T(a.rows, a.cols, a.ok /\ b.ok /\ SameShape(a, b), "times", <<a, b>>)
\* a.t().dot(&g)
TDot(a, g) == T(a.cols, g.cols, a.ok /\ g.ok /\ a.rows = g.rows, "t_dot", <<a, g>>)
\* g.dot(&w.t()), w the weight matrix of layer k at version ver
DotT(g, w, k) ==
    T(g.rows, w.rows, g.ok /\ g.cols = w.cols, "dot_t",
      <<g, [layer |-> k, wver |-> w.ver]>>)
\* g.mean_axis(Axis(0)).unwrap()
MeanAxis0(g) == [len |-> g.cols, ok |-> g.ok /\ g.rows > 0]

(***************************************************************************)
(* NeuralNet::forward.  The real output of a layer is its activated linear *)
(* output when another layer follows (it.peek() is Some) and the linear    *)
(* output itself for the last layer.                                       *)
(***************************************************************************)
RealOutput_AlwaysActivated(lin_output, peek_some) == Activation(lin_output)
RealOutput(lin_output, peek_some) ==
    IF peek_some THEN Activation(lin_output) ELSE lin_output

\* forward is entered: `let mut hidden = vec![inputs.clone()]` and an empty
\* hidden_linear
ForwardEnter(inputs) ==
    /\ hidden' = <<inputs>>
    /\ hidden_linear' = <<>>

\* forward's loop has consumed every layer and forward returns
ForwardReturned == Len(hidden_linear) = Len(layers)

\* one iteration of `while let Some(layer) = it.next()`, in the forward pass
\* of a batch (pc = "fit_forward") or of predict (pc = "predict_forward")
ForwardLayer ==
    /\ pc \in {"fit_forward", "predict_forward"}
    /\ ~ForwardReturned
    /\ LET k == Len(hidden_linear) + 1
           lin_output == LinOutput(hidden[Len(hidden)], layers, k)
           real_output == RealOutput(lin_output, k < Len(layers))
       IN  /\ hidden' = Append(hidden, real_output)
           /\ hidden_linear' = Append(hidden_linear, lin_output)
           /\ pc' = IF lin_output.ok THEN pc ELSE "panic"
    /\ UNCHANGED <<newVars, netVars, dataVars, fitVars, grad_help, idx,
                   new_weights, new_biases, histVars, ceVars>>

\* Model::predict, once forward has returned hid
predict(hid) == Softmax(hid[Len(hid)])

(***************************************************************************)
(* axis_chunks_iter(Axis(0), size) zipped over data and target: chunk c    *)
(* (0-based) exists while it starts before the last row, and ends at the   *)
(* next multiple of size or at the last row.                               *)
(***************************************************************************)
Min(a, b) == IF a <= b THEN a ELSE b
ChunkExists_WholeOnly(n, size, c) == (c + 1) * size <= n
ChunkExists(n, size, c) == c * size < n
ChunkEnd(n, size, c) == Min((c + 1) * size, n)

(***************************************************************************)
(* backward_and_update: the body of `for idx in (0..len).rev()`.           *)
(***************************************************************************)
\* lines 96-99: the gradient w.r.t. the linear output of layer k
LayerGradient(g, lin, k, len) ==
    IF k # len THEN Times(g, DeltaActivation(lin[k])) ELSE g

\* line 102 and line 104
WeightGrad(hid, g, k) == TDot(hid[k], g)
BiasGrad(g) == MeanAxis0(g)

\* lines 107-108: the gradient-descent step (learning_rate is a scalar)
NewWeights(w, weight_grad) ==
    [rows |-> w.rows, cols |-> w.cols, ver |-> w.ver + 1, init |-> w.init]
NewBiases(b, bias_grad) ==
    [len |-> b.len, ver |-> b.ver + 1, init |-> b.init]
StepShapesAgree(layer, weight_grad, bias_grad) ==
    /\ weight_grad.ok /\ SameShape(layer.w, weight_grad)
    /\ bias_grad.ok /\ layer.b.len = bias_grad.len

\* line 111: the weight matrix the gradient is propagated through
PropagationWeight_Updated(lyrs, nw, k) == nw
PropagationWeight(lyrs, nw, k) == lyrs[k].w


(***************************************************************************)
(* test_loss: the cross-entropy of predict on the validation set.  The     *)
(* number it returns is any of LossValues (the f64 arithmetic is not       *)
(* computed); of names the prediction it was computed from, hid being what *)
(* predict's forward pass returned.                                        *)
(***************************************************************************)
TestRows == 2
MaxLoss == 1
LossValues == 0 .. MaxLoss
TestData == T(TestRows, NumFeatures, TRUE, "data", <<0, TestRows>>)
test_loss(hid, v) == [value |-> v, of |-> predict(hid)]

(***************************************************************************)
(* NeuralNet::fit with a fixed number of epochs.                           *)
(***************************************************************************)
MaxEpochs == 2
MaxBatch == 2
MaxRows == 3

\* layer widths that fit the dataset: NumFeatures first, NumClasses last
FitStructures ==
    {<<NumFeatures>> \o h \o <<NumClasses>> : h \in SeqsUpTo(Widths, MaxLen - 2)}

InitNet ==
    /\ pc = "epoch"
    /\ layer_structure \in FitStructures
    /\ init_method \in InitMethod
    /\ build = "debug"
    /\ seed = 0
    /\ layers = NeuralNetNew(layer_structure, init_method, build, seed).layers
    /\ batch_size \in 1 .. MaxBatch
    /\ nrows \in 0 .. MaxRows
    /\ IdleFit /\ IdlePass /\ IdleHist /\ IdleCE

Init ==
    /\ InitNet
    /\ num_epochs \in 0 .. MaxEpochs
    /\ test_path \in {"None", "Some"}
    /\ epsilon = 0

\* `for num_epoch in 0..self.num_epochs`
EpochInRange_Inclusive(e, n) == e <= n
EpochInRange(e, n) == e < n

FitEpoch ==
    /\ pc = "epoch"
    /\ EpochInRange(num_epoch, num_epochs)
    /\ pc' = "batch"
    /\ chunk' = 0
    /\ batch_log' = <<>>
    /\ epoch_log' = Append(epoch_log, num_epoch)
    /\ UNCHANGED <<newVars, netVars, dataVars, num_epoch, losses, passVars,
                   visited, ceVars>>

FitReturn ==
    /\ pc = "epoch"
    /\ ~EpochInRange(num_epoch, num_epochs)
    /\ pc' = "done"
    /\ UNCHANGED <<newVars, netVars, dataVars, fitVars, passVars, histVars,
                   ceVars>>

\* lines 127-131: the next chunk is taken and forward is called on it
FitBatch ==
    /\ pc = "batch"
    /\ ChunkExists(nrows, batch_size, chunk)
    /\ LET lo == chunk * batch_size
           hi == ChunkEnd(nrows, batch_size, chunk)
       IN  /\ ForwardEnter(InputBatch(lo, hi))
           /\ batch_log' = Append(batch_log, [input |-> InputBatch(lo, hi),
                                              target |-> TargetBatch(lo, hi)])
    /\ pc' = "fit_forward"
    /\ UNCHANGED <<newVars, netVars, dataVars, fitVars, grad_help, idx,
                   new_weights, new_biases, visited, epoch_log, ceVars>>

\* lines 132-145: forward has returned; the gradient of the loss w.r.t. the
\* scores is softmax(scores) - target_batch and backward_and_update is called
FitGradient ==
    /\ pc = "fit_forward"
    /\ ForwardReturned
    /\ LET scores == hidden[Len(hidden)]
           target_batch == TargetBatch(chunk * batch_size,
                                       ChunkEnd(nrows, batch_size, chunk))
           grad == Minus(Softmax(scores), target_batch)
       IN  /\ grad_help' = grad
           /\ pc' = IF ~grad.ok THEN "panic"
                    ELSE IF Len(layers) = 0 THEN "batch" ELSE "bw_grad"
           /\ chunk' = IF grad.ok /\ Len(layers) = 0 THEN chunk + 1 ELSE chunk
    /\ idx' = Len(layers)
    /\ visited' = <<>>
    /\ UNCHANGED <<newVars, netVars, dataVars, num_epoch, losses, hidden,
                   hidden_linear, new_weights, new_biases, batch_log,
                   epoch_log, ceVars>>

\* lines 96-108
BackwardGradients ==
    /\ pc = "bw_grad"
    /\ LET g == LayerGradient(grad_help, hidden_linear, idx, Len(layers))
           weight_grad == WeightGrad(hidden, g, idx)
           bias_grad == BiasGrad(g)
       IN  /\ grad_help' = g
           /\ new_weights' = NewWeights(layers[idx].w, weight_grad)
           /\ new_biases' = NewBiases(layers[idx].b, bias_grad)
           /\ pc' = IF StepShapesAgree(layers[idx], weight_grad, bias_grad)
                    THEN "bw_prop" ELSE "panic"
    /\ visited' = Append(visited, idx)
    /\ UNCHANGED <<newVars, netVars, dataVars, fitVars, hidden, hidden_linear,
                   idx, batch_log, epoch_log, ceVars>>

\* line 111
BackwardPropagate ==
    /\ pc = "bw_prop"
    /\ LET g == DotT(grad_help, PropagationWeight(layers, new_weights, idx), idx)
       IN  /\ grad_help' = g
           /\ pc' = IF g.ok THEN "bw_assign" ELSE "panic"
    /\ UNCHANGED <<newVars, netVars, dataVars, fitVars, hidden, hidden_linear,
                   idx, new_weights, new_biases, histVars, ceVars>>

\* line 113 and the step of the loop; after the first layer the pass returns
\* and fit takes the next chunk
BackwardAssign ==
    /\ pc = "bw_assign"
    /\ layers' = [layers EXCEPT ![idx] = [w |-> new_weights, b |-> new_biases]]
    /\ idx' = idx - 1
    /\ IF idx = 1 THEN pc' = "batch" /\ chunk' = chunk + 1
       ELSE pc' = "bw_grad" /\ UNCHANGED chunk
    /\ UNCHANGED <<newVars, num_epochs, batch_size, dataVars, num_epoch,
                   losses, hidden, hidden_linear, grad_help, new_weights,
                   new_biases, histVars, ceVars>>

\* line 151: losses.push((num_epoch, loss))
LossEntry_OneBased(e, loss) == <<e + 1, loss>>
LossEntry(e, loss) == <<e, loss>>

\* lines 148-149 with a validation path: test_loss calls predict, which
\* calls forward on the validation set
FitPredict ==
    /\ pc = "batch"
    /\ ~ChunkExists(nrows, batch_size, chunk)
    /\ test_path = "Some"
    /\ ForwardEnter(TestData)
    /\ pc' = "predict_forward"
    /\ UNCHANGED <<newVars, netVars, dataVars, fitVars, grad_help, idx,
                   new_weights, new_biases, histVars, ceVars>>

\* lines 149-152: the loss is pushed, and the step of the epoch loop
FitTestLoss ==
    /\ pc = "predict_forward"
    /\ ForwardReturned
    /\ \E v \in LossValues :
          losses' = Append(losses, LossEntry(num_epoch, test_loss(hidden, v)))
    /\ num_epoch' = num_epoch + 1
    /\ pc' = "epoch"
    /\ UNCHANGED <<newVars, netVars, dataVars, chunk, passVars, histVars,
                   ceVars>>

\* lines 148-152 without one
FitNoTestLoss ==
    /\ pc = "batch"
    /\ ~ChunkExists(nrows, batch_size, chunk)
    /\ test_path = "None"
    /\ num_epoch' = num_epoch + 1
    /\ pc' = "epoch"
    /\ UNCHANGED <<newVars, netVars, dataVars, chunk, losses, passVars,
                   histVars, ceVars>>

\* the steps of a batch and of a forward pass
Batch ==
    \/ FitBatch
    \/ ForwardLayer
    \/ FitGradient
    \/ BackwardGradients
    \/ BackwardPropagate
    \/ BackwardAssign

Next ==
    \/ FitEpoch
    \/ FitReturn
    \/ Batch
    \/ FitPredict
    \/ FitTestLoss
    \/ FitNoTestLoss

Spec == Init /\ [][Next]_vars

(***************************************************************************)
(* The early-stopping controller (no fixed epoch count: num_epochs is      *)
(* None, a validation path is always given).  After each epoch the         *)
(* validation loss is computed; training stops when it differs from the    *)
(* previous epoch's by less than epsilon.  MaxEarlyEpochs is the horizon   *)
(* of the model: no epoch is started past it.                              *)
(***************************************************************************)
MaxEarlyEpochs == 3
MaxEpsilon == 2

Abs(x) == IF x < 0 THEN 0 - x ELSE x

StopNow_FirstEpochToo(ls, eps) ==
    \/ Len(ls) = 1
    \/ Len(ls) >= 2 /\ Abs(ls[Len(ls)][2].value - ls[Len(ls) - 1][2].value) < eps

StopNow(ls, eps) ==
    /\ Len(ls) >= 2
    /\ Abs(ls[Len(ls)][2].value - ls[Len(ls) - 1][2].value) < eps

InitEarly ==
    /\ InitNet
    /\ num_epochs = "None"
    /\ test_path = "Some"
    /\ epsilon \in 0 .. MaxEpsilon

EarlyEpoch ==
    /\ pc = "epoch"
    /\ ~StopNow(losses, epsilon)
    /\ num_epoch < MaxEarlyEpochs
    /\ pc' = "batch"
    /\ chunk' = 0
    /\ batch_log' = <<>>
    /\ epoch_log' = Append(epoch_log, num_epoch)
    /\ UNCHANGED <<newVars, netVars, dataVars, num_epoch, losses, passVars,
                   visited, ceVars>>

EarlyStop ==
    /\ pc = "epoch"
    /\ StopNow(losses, epsilon)
    /\ pc' = "done"
    /\ UNCHANGED <<newVars, netVars, dataVars, fitVars, passVars, histVars,
                   ceVars>>

NextEarly ==
    \/ EarlyEpoch
    \/ EarlyStop
    \/ Batch
    \/ FitPredict
    \/ FitTestLoss

SpecEarly == InitEarly /\ [][NextEarly]_vars

(***************************************************************************)
(* cross_entropy.  A prediction entry is 0 or 2^-exp; its log2 is -inf or  *)
(* -exp.  An f64 is finite (num/den), -inf, +inf or NaN, with the IEEE-754 *)
(* rules 0 * -inf = NaN, x + NaN = NaN, x + -inf = -inf.                   *)
(***************************************************************************)
MaxCERows == 2
MaxCEClasses == 3
MaxExp == 2

P(z, e) == [zero |-> z, exp |-> e]
ProbEntries == {P(TRUE, 0)} \cup {P(FALSE, e) : e \in 0 .. MaxExp}
\* the entry's value times 2^MaxExp
Scaled(p) == IF p.zero THEN 0 ELSE 2 ^ (MaxExp - p.exp)

RECURSIVE SumTo(_, _)
SumTo(f, n) == IF n = 0 THEN 0 ELSE f[n] + SumTo(f, n - 1)

\* rows that predict returns: probabilities that sum to 1
ProbRows(c) ==
    {r \in [1 .. c -> ProbEntries] :
        SumTo([j \in 1 .. c |-> Scaled(r[j])], c) = 2 ^ MaxExp}
\* rows that parse_dataset builds: one-hot
OneHot(c, label) == [j \in 1 .. c |-> IF j = label THEN 1 ELSE 0]
OneHotRows(c) == {OneHot(c, label) : label \in 1 .. c}

Fin(n, d) == [k |-> "fin", num |-> n, den |-> d]
NegInf == [k |-> "ninf", num |-> 0, den |-> 1]
PosInf == [k |-> "pinf", num |-> 0, den |-> 1]
NaN == [k |-> "nan", num |-> 0, den |-> 1]

\* x.log2() of a prediction entry
Log2(p) == IF p.zero THEN NegInf ELSE Fin(0 - p.exp, 1)
\* t * x for a target entry t in {0, 1}
FMulTarget(t, x) ==
    IF x.k = "nan" THEN NaN
    ELSE IF x.k = "fin" THEN Fin(t * x.num, 1)
    ELSE IF t = 0 THEN NaN
    ELSE x
\* x + y for x, y finite integers, -inf or NaN
FAdd(x, y) ==
    IF x.k = "nan" \/ y.k = "nan" THEN NaN
    ELSE IF x.k = "ninf" \/ y.k = "ninf" THEN NegInf
    ELSE Fin(x.num + y.num, 1)

\* target_row.dot(&actual_row.map(|x| x.log2()))
RECURSIVE RowDot(_, _, _)
RowDot(target_row, actual_row, j) ==
    IF j = 0 THEN Fin(0, 1)
    ELSE FAdd(RowDot(target_row, actual_row, j - 1),
              FMulTarget(target_row[j], Log2(actual_row[j])))

\* the sum over the zipped rows
RECURSIVE Total(_, _, _)
Total(preds, tgt, i) ==
    IF i = 0 THEN Fin(0, 1)
    ELSE FAdd(Total(preds, tgt, i - 1),
              RowDot(tgt[i], preds[i], Len(preds[i])))

\* -1f64 * (1f64 / predictions.nrows() as f64) * total
cross_entropy(preds, tgt) ==
    LET total == Total(preds, tgt, Min(Len(preds), Len(tgt)))
    IN  IF total.k = "nan" THEN NaN
        ELSE IF total.k = "ninf" THEN PosInf
        ELSE Fin(0 - total.num, Len(preds))

InitCE ==
    /\ pc = "ce_call"
    /\ \E r \in 1 .. MaxCERows, c \in 1 .. MaxCEClasses :
          /\ predictions \in [1 .. r -> ProbRows(c)]
          /\ target \in [1 .. r -> OneHotRows(c)]
    /\ ce_out = "none"
    /\ layer_structure = <<>> /\ init_method = "Default"
    /\ build = "debug" /\ seed = 0
    /\ layers = <<>> /\ num_epochs = 0 /\ batch_size = 1
    /\ IdleData /\ IdleFit /\ IdlePass /\ IdleHist

CrossEntropy ==
    /\ pc = "ce_call"
    /\ ce_out' = cross_entropy(predictions, target)
    /\ pc' = "ce_done"
    /\ UNCHANGED <<newVars, netVars, dataVars, fitVars, passVars, histVars,
                   predictions, target>>

NextCE == CrossEntropy
SpecCE == InitCE /\ [][NextCE]_vars

(***************************************************************************)
(* The claims.                                                             *)
(***************************************************************************)
CeilDiv(n, b) == (n + b - 1) \div b
BatchesPerEpoch == CeilDiv(nrows, batch_size)
InitialLayers == NeuralNetNew(layer_structure, init_method, build, seed).layers
LossDiff(t) == Abs(losses[t][2].value - losses[t - 1][2].value)

\* the parameters a matrix of a forward pass was computed from, first layer first
RECURSIVE UsedParams(_)
UsedParams(x) ==
    IF x.op = "lin_output" THEN Append(UsedParams(x.args[1]), x.args[2])
    ELSE IF x.op \in {"activation", "softmax"} THEN UsedParams(x.args[1])
    ELSE <<>>
\* the parameters of every layer after n gradient steps
ParamsAfter(n) ==
    [k \in 1 .. Len(layers) |-> [layer |-> k, wver |-> n, bver |-> n]]

\* C1: under early stopping a validation loss is recorded after every epoch;
\* fit is stopped only when the last two losses differ by less than epsilon,
\* never after the first epoch alone; once two consecutive losses differ by
\* less than epsilon no further epoch is started; so with epsilon > 0 and
\* equal losses after the first and second epoch there is no third epoch.
C1_EarlyStopping ==
    /\ Len(losses) = num_epoch
    /\ pc = "done" => Len(losses) >= 2 /\ LossDiff(Len(losses)) < epsilon
    /\ \A t \in 2 .. Len(losses) :
          LossDiff(t) < epsilon => t = Len(losses) /\ pc \in {"epoch", "done"}
    /\ (epsilon > 0 /\ Len(losses) >= 2
            /\ losses[1][2].value = losses[2][2].value)
          => num_epoch = 2 /\ pc \in {"epoch", "done"}
C1_Witness ==
    /\ pc = "done" /\ epsilon > 0 /\ Len(losses) = 2 /\ nrows = MaxRows
    /\ losses[1][2].value = losses[2][2].value

\* the steps fit still has to take.  A batch takes one step to enter
\* forward, one per layer in forward, one for the gradient and three per
\* layer in the backward pass; the end of an epoch takes one step, or with a
\* validation path one to enter predict, one per layer and one for the loss.
PassSteps == 2 + 4 * Len(layers)
EndSteps == IF test_path = "Some" THEN 2 + Len(layers) ELSE 1
EpochSteps == 1 + BatchesPerEpoch * PassSteps + EndSteps
StepsLeft ==
    LET L == Len(layers)
        from_epoch(e) == (num_epochs - e) * EpochSteps + 1
        from_end == EndSteps + from_epoch(num_epoch + 1)
        from_batch(c) == (BatchesPerEpoch - c) * PassSteps + from_end
    IN  CASE pc = "epoch" -> from_epoch(num_epoch)
          [] pc = "batch" -> from_batch(chunk)
          [] pc = "fit_forward" ->
                (L - Len(hidden_linear)) + 1 + 3 * L + from_batch(chunk + 1)
          [] pc = "bw_grad" -> 3 * idx + from_batch(chunk + 1)
          [] pc = "bw_prop" -> 3 * idx - 1 + from_batch(chunk + 1)
          [] pc = "bw_assign" -> 3 * idx - 2 + from_batch(chunk + 1)
          [] pc = "predict_forward" ->
                (L - Len(hidden_linear)) + 1 + from_epoch(num_epoch + 1)
          [] OTHER -> 0

\* C2: with num_epochs = N fit terminates (until it has returned a step is
\* always possible, and every step lowers the number of steps left, which is
\* never negative), having run exactly the epochs 0, 1, ..., N-1 in this
\* order whatever losses were observed; with N = 0 no batch is processed and
\* the layers stay as constructed.
C2_FixedEpochs ==
    /\ [](/\ StepsLeft >= 0
          /\ pc = "done" <=> StepsLeft = 0
          /\ pc # "done" => ENABLED Next
          /\ Len(epoch_log) <= num_epochs
          /\ \A k \in 1 .. Len(epoch_log) : epoch_log[k] = k - 1
          /\ pc = "done" => Len(epoch_log) = num_epochs
          /\ num_epochs = 0 =>
                layers = InitialLayers /\ hidden = <<>> /\ batch_log = <<>>)
    /\ [][StepsLeft' = StepsLeft - 1]_vars
C2_Witness ==
    /\ pc = "done" /\ num_epochs = MaxEpochs /\ nrows = MaxRows
    /\ test_path = "Some" /\ epoch_log = [k \in 1 .. MaxEpochs |-> k - 1]
    /\ losses[1][2].value # losses[2][2].value

\* C3: with a validation path the trajectory holds one entry per completed
\* epoch, entry k carrying epoch index k-1 and a loss computed from the
\* parameters as they are after all batches of epochs 0..k-1; without a
\* validation path it stays empty.
C3_LossTrajectory ==
    /\ test_path = "None" => losses = <<>>
    /\ test_path = "Some" =>
          /\ Len(losses) = num_epoch
          /\ \A k \in 1 .. Len(losses) :
                /\ losses[k][1] = k - 1
                /\ UsedParams(losses[k][2].of) = ParamsAfter(k * BatchesPerEpoch)
C3_Witness ==
    /\ pc = "done" /\ test_path = "Some" /\ Len(losses) = 2
    /\ nrows = MaxRows /\ batch_size = 2

\* C4: NeuralNet::new on a layer_structure of fewer than 2 widths fails and
\* never returns a network.
C4_ShortStructureFails ==
    (pc # "new" /\ Len(layer_structure) < 2) => pc = "panic"

\* C5: right after construction every bias entry is 1 and every weight lies
\* in [-0.3, 0.3] under Default; every bias entry is 0 and every weight lies
\* in [-b, b], b = sqrt(6) / (fan_in + fan_out), under Xavier.
InRange(x, lo, hi) == QLeq(lo, x) /\ QLeq(x, hi)
C5_InitBounds ==
    pc = "constructed" =>
       \A i \in 1 .. Len(layers) :
          LET fan_in == layer_structure[i]
              fan_out == layer_structure[i + 1]
              b == IF init_method = "Default" THEN Q(3, 10, 1)
                   ELSE Q(1, fan_in + fan_out, 6)
              one_or_zero == IF init_method = "Default" THEN Q(1, 1, 1)
                             ELSE Q(0, 1, 1)
          IN  /\ \A p \in DOMAIN layers[i].w.init :
                    InRange(layers[i].w.init[p], QNeg(b), b)
              /\ \A c \in DOMAIN layers[i].b.init :
                    QEq(layers[i].b.init[c], one_or_zero)
C5_Witness ==
    /\ pc = "constructed" /\ init_method = "Xavier" /\ Len(layers) = 2
    /\ \E p, q \in DOMAIN layers[2].w.init :
          /\ QEq(layers[2].w.init[p], Q(-1, layer_structure[2] + layer_structure[3], 6))
          /\ ~QEq(layers[2].w.init[q], layers[2].w.init[p])

\* C6: cross_entropy returns 0 when every prediction row equals its one-hot
\* target row.
PredictionsEqualTargets ==
    \A i \in 1 .. Len(predictions) : \A j \in 1 .. Len(predictions[i]) :
       predictions[i][j] = IF target[i][j] = 1 THEN P(FALSE, 0) ELSE P(TRUE, 0)
C6_ZeroLossOnExactPredictions ==
    (pc = "ce_done" /\ PredictionsEqualTargets) =>
       ce_out.k = "fin" /\ ce_out.num = 0

\* C7: forward returns one activated output per layer after the raw input and
\* one linear output per layer; each linear output is computed from the
\* previous activated output; the activation is applied to every linear
\* output but the last, which is returned as it is; the final output has the
\* batch's rows and the last layer's width; forward changes no layer.
InForward == pc \in {"fit_forward", "predict_forward"}
InBackward == pc \in {"bw_grad", "bw_prop", "bw_assign"}
C7_ForwardTrace ==
    /\ []((InForward \/ InBackward) =>
            LET L == Len(layers)
                n == Len(hidden_linear)
            IN  /\ Len(hidden) = n + 1 /\ n <= L
                /\ InBackward => n = L
                /\ hidden[1] = IF pc = "predict_forward" THEN TestData
                               ELSE batch_log[Len(batch_log)].input
                /\ hidden[1].rows >= 1
                /\ \A k \in 1 .. n :
                      /\ hidden_linear[k].op = "lin_output"
                      /\ hidden_linear[k].ok
                      /\ hidden_linear[k].args[1] = hidden[k]
                      /\ hidden_linear[k].args[2].layer = k
                      /\ k < L =>
                            /\ hidden[k + 1].op = "activation"
                            /\ hidden[k + 1].args[1] = hidden_linear[k]
                /\ n = L =>
                      /\ hidden[L + 1] = hidden_linear[L]
                      /\ hidden[L + 1].rows = hidden[1].rows
                      /\ hidden[L + 1].cols = layer_structure[Len(layer_structure)])
    /\ [][InForward => layers' = layers]_vars
C7_Witness ==
    /\ pc = "fit_forward" /\ ForwardReturned
    /\ Len(layers) = 2 /\ hidden[1].rows = 2
    /\ hidden[2].op = "activation" /\ hidden[3].op = "lin_output"

\* C8: the backward pass visits the layers last to first, each once; the
\* gradient handed to the previous layer is computed from the weight matrix
\* the forward pass used, not from the updated one; the gradient is
\* multiplied by the activation derivative at the layer's linear output for
\* every layer but the last.
C8_BackwardOrder ==
    LET L == Len(layers)
    IN  /\ \A j \in 1 .. Len(visited) : visited[j] = L + 1 - j
        /\ pc = "bw_grad" => Len(visited) = L - idx
        /\ pc \in {"bw_prop", "bw_assign"} => Len(visited) = L + 1 - idx
        /\ (pc = "batch" /\ chunk > 0) => Len(visited) = L
        /\ pc = "bw_prop" =>
              IF idx = L THEN grad_help.op = "minus"
              ELSE /\ grad_help.op = "times"
                   /\ grad_help.args[1].op = "dot_t"
                   /\ grad_help.args[1].args[2].layer = idx + 1
                   /\ grad_help.args[2].op = "delta_activation"
                   /\ grad_help.args[2].args[1] = hidden_linear[idx]
        /\ pc = "bw_assign" =>
              /\ grad_help.op = "dot_t"
              /\ grad_help.args[2].layer = idx
              /\ grad_help.args[2].wver = hidden_linear[idx].args[2].wver
              /\ grad_help.args[2].wver = layers[idx].w.ver
              /\ new_weights.ver = layers[idx].w.ver + 1
C8_Witness ==
    /\ pc = "bw_assign" /\ idx = 1 /\ Len(layers) = 2
    /\ layers[2].w.ver = layers[1].w.ver + 1 /\ layers[1].w.ver >= 1

\* C9: the batches of an epoch are contiguous row ranges in row order, the
\* same for features and targets, each of batch_size rows but possibly the
\* last; together they cover every row once; there are ceil(N / batch_size)
\* of them; each forward pass uses the parameters left by the previous batch.
C9_Batches ==
    /\ \A j \in 1 .. Len(batch_log) :
          LET e == batch_log[j]
              lo == e.input.args[1]
              hi == e.input.args[2]
          IN  /\ e.target.args = e.input.args
              /\ e.input.rows = hi - lo /\ e.target.rows = hi - lo
              /\ lo = IF j = 1 THEN 0 ELSE batch_log[j - 1].input.args[2]
              /\ 1 <= hi - lo /\ hi - lo <= batch_size /\ hi <= nrows
              /\ hi - lo < batch_size => hi = nrows
    /\ (pc = "fit_forward" \/ InBackward) =>
          /\ Len(batch_log) = chunk + 1
          /\ \A k \in 1 .. Len(hidden_linear) :
                hidden_linear[k].args[2] =
                   ParamsAfter(num_epoch * BatchesPerEpoch + chunk)[k]
    /\ (pc \in {"epoch", "done"} /\ num_epoch > 0) =>
          /\ Len(batch_log) = BatchesPerEpoch
          /\ nrows > 0 => batch_log[Len(batch_log)].input.args[2] = nrows
          /\ \A k \in 1 .. Len(layers) :
                layers[k].w.ver = num_epoch * BatchesPerEpoch
C9_Witness ==
    /\ pc = "epoch" /\ num_epoch = 2 /\ nrows = 3 /\ batch_size = 2
    /\ Len(batch_log) = 2 /\ batch_log[2].input.rows = 1

\* C10: the network always holds one layer per pair of adjacent widths, layer
\* i with a weight matrix of layer_structure[i] rows and layer_structure[i+1]
\* columns and a bias of layer_structure[i+1] entries, so that consecutive
\* layers fit; no step of training fails on a shape.
C10_LayerShapes ==
    /\ pc # "panic"
    /\ Len(layer_structure) >= 2
    /\ Len(layers) = Len(layer_structure) - 1
    /\ \A i \in 1 .. Len(layers) :
          /\ layers[i].w.rows = layer_structure[i]
          /\ layers[i].w.cols = layer_structure[i + 1]
          /\ layers[i].b.len = layer_structure[i + 1]
          /\ DOMAIN layers[i].w.init = (1 .. layer_structure[i]) \X (1 .. layer_structure[i + 1])
          /\ DOMAIN layers[i].b.init = 1 .. layer_structure[i + 1]
          /\ i < Len(layers) => layers[i].w.cols = layers[i + 1].w.rows
C10_Witness ==
    /\ pc = "done" /\ Len(layers) = 2 /\ num_epochs = 2
    /\ layers[1].w.ver >= 2 /\ layers[2].b.ver >= 2

=============================================================================
